---- MODULE Spec2Model ----
(***************************************************************************)
(* Model of src/prediction/predictor_model.py: the Classifier wrapper      *)
(* around CatBoostClassifier and the free functions built on it.           *)
(*                                                                         *)
(* The program is single threaded.  One call runs at a time; fit is split  *)
(* at the points where the `with tempfile.TemporaryDirectory()` block is    *)
(* entered, where the CatBoostClassifier is built, where it is trained and *)
(* where the block is left, so that the scratch directory can be observed  *)
(* while the call is running.  Every other method is one atomic step.      *)
(* The caller works with one model directory, which is absent or holds     *)
(* files of the caller's own when the program starts.                      *)
(***************************************************************************)
EXTENDS Integers, Sequences, FiniteSets, TLC

\* ---------------------------------------------------------------- bounds
NumObjs == 2          \* Classifier objects the caller can hold at once
NumTempNames == 2     \* names mkdtemp can draw for the scratch directory
MaxW == 1             \* outcomes of training: the learned state is 0..MaxW
NumClasses == 3       \* distinct labels of the classification problem
MaxInput == 1         \* inference / test rows are 0..MaxInput

Objs == 1..NumObjs
TempNames == 1..NumTempNames
Weights == 0..MaxW
Labels == 0..(NumClasses - 1)
Inputs == 0..MaxInput

\* ------------------------------------------------------ python values
\* Numbers are kept with their python type; a float is held in tenths.
PyInt(n) == [t |-> "int", v |-> n]
PyFloat(tenths) == [t |-> "float", v |-> tenths]

\* the numeric value of a python number, in tenths
Tenths(x) == IF x.t = "int" THEN 10 * x.v ELSE x.v

\* float(x)
ToFloat(x) == IF x.t = "int" THEN PyFloat(10 * x.v) ELSE x

\* int(x): truncation toward zero
ToInt(x) ==
    IF x.t = "int" THEN x
    ELSE IF x.v >= 0 THEN PyInt(x.v \div 10) ELSE PyInt(-((-x.v) \div 10))

PREDICTOR_FILE_NAME == "predictor.joblib"

\* the defaults of Classifier.__init__
DefaultHyperparameters ==
    [learning_rate |-> PyFloat(1), iterations |-> PyInt(100),
     depth |-> PyInt(6), l2_leaf_reg |-> PyFloat(30), kwargs |-> {}]

\* the hyperparameter mappings the callers pass: the defaults, and a set
\* that gives an int where a float is stored, a float where an int is
\* stored, and an extra keyword option
HyperparameterSets ==
    { DefaultHyperparameters,
      [learning_rate |-> PyFloat(3), iterations |-> PyFloat(50),
       depth |-> PyInt(2), l2_leaf_reg |-> PyInt(1), kwargs |-> {"verbose"}] }

None == [kind |-> "None"]
Absent == [kind |-> "absent"]

\* Classifier.__init__
ClassifierInitBroken(h) ==
    [kind |-> "Classifier",
     learning_rate |-> ToFloat(h.learning_rate),
     iterations |-> ToInt(h.iterations),
     depth |-> ToInt(h.depth),
     l2_leaf_reg |-> ToFloat(h.l2_leaf_reg),
     model |-> None,
     is_trained |-> TRUE]

ClassifierInit(h) ==
    [kind |-> "Classifier",
     learning_rate |-> ToFloat(h.learning_rate),
     iterations |-> ToInt(h.iterations),
     depth |-> ToInt(h.depth),
     l2_leaf_reg |-> ToFloat(h.l2_leaf_reg),
     model |-> None,
     is_trained |-> FALSE]

\* CatBoostClassifier(loss_function='MultiClass', ..., train_dir=tempdir):
\* a new, untrained model object
NewCatBoost(self, tempdir) ==
    [kind |-> "CatBoostClassifier",
     loss_function |-> "MultiClass",
     learning_rate |-> self.learning_rate,
     iterations |-> self.iterations,
     depth |-> self.depth,
     l2_leaf_reg |-> self.l2_leaf_reg,
     train_dir |-> tempdir,
     fitted |-> FALSE,
     w |-> 0]

\* the four hyperparameters of an instance
HP(self) ==
    <<self.learning_rate, self.iterations, self.depth, self.l2_leaf_reg>>

\* the four hyperparameters a model object was built with
ModelHP(m) == <<m.learning_rate, m.iterations, m.depth, m.l2_leaf_reg>>

\* the label a trained model gives a row
Label(m, x) == (m.w + x) % NumClasses

\* a call's outcome: how it ended and what it returned
Ret(v) == [outcome |-> "ok", val |-> v]
Raise(e) == [outcome |-> e, val |-> <<>>]

\* Classifier.predict
PredictDefaultLabel(self, x) ==
    IF self.model = None THEN Ret(<<0>>)
    ELSE IF ~self.model.fitted THEN Raise("CatBoostError")
    ELSE Ret(<<Label(self.model, x)>>)

Predict(self, x) ==
    IF self.model = None THEN Raise("AttributeError")
    ELSE IF ~self.model.fitted THEN Raise("CatBoostError")
    ELSE Ret(<<Label(self.model, x)>>)

\* Classifier.predict_proba
PredictProba(self, x) ==
    IF self.model = None THEN Raise("AttributeError")
    ELSE IF ~self.model.fitted THEN Raise("CatBoostError")
    ELSE Ret([k \in 1..NumClasses |->
                IF k - 1 = Label(self.model, x) THEN 100 ELSE 0])

\* predict_with_model
PredictWithModel(classifier, data, return_probs) ==
    IF return_probs THEN PredictProba(classifier, data)
    ELSE Predict(classifier, data)

\* Classifier.evaluate: accuracy (in percent) on a one-row test set
EvaluateNoGuard(self, x, y) ==
    IF self.model = None THEN Raise("AttributeError")
    ELSE IF ~self.model.fitted THEN Raise("CatBoostError")
    ELSE Ret(<<IF Label(self.model, x) = y THEN 100 ELSE 0>>)

Evaluate(self, x, y) ==
    IF self.model # None
    THEN IF ~self.model.fitted THEN Raise("CatBoostError")
         ELSE Ret(<<IF Label(self.model, x) = y THEN 100 ELSE 0>>)
    ELSE Raise("NotFittedError")

\* evaluate_predictor_model
EvaluatePredictorModel(model, x, y) == Evaluate(model, x, y)

\* ----------------------------------------------------------- persistence
NoFile == <<>>

\* joblib.dump of the model object held by the handle
DumpModel(m) ==
    IF m = None THEN <<"None">>
    ELSE <<"CatBoostClassifier", m.loss_function, m.learning_rate,
           m.iterations, m.depth, m.l2_leaf_reg, m.train_dir, m.fitted, m.w>>

LoadModel(b) ==
    IF b[1] = "None" THEN None
    ELSE [kind |-> "CatBoostClassifier", loss_function |-> b[2],
          learning_rate |-> b[3], iterations |-> b[4], depth |-> b[5],
          l2_leaf_reg |-> b[6], train_dir |-> b[7], fitted |-> b[8],
          w |-> b[9]]

\* joblib.dump(self, ...): the instance's attributes, in order
Dump(self) ==
    <<"Classifier", self.learning_rate, self.iterations, self.depth,
      self.l2_leaf_reg, DumpModel(self.model), self.is_trained>>

\* joblib.load(...): a new instance with the pickled attributes
JoblibLoad(b) ==
    [kind |-> "Classifier", learning_rate |-> b[2], iterations |-> b[3],
     depth |-> b[4], l2_leaf_reg |-> b[5], model |-> LoadModel(b[6]),
     is_trained |-> b[7]]

\* a directory: whether it exists, the content of predictor.joblib in it,
\* and whether it holds files of the caller's own
NoDir == [exists |-> FALSE, joblib |-> NoFile, other |-> FALSE]

\* Classifier.save: the outcome and the directory afterwards
Save(self, d) ==
    IF ~self.is_trained THEN [r |-> Raise("NotFittedError"), d |-> d]
    ELSE IF ~d.exists THEN [r |-> Raise("FileNotFoundError"), d |-> d]
    ELSE [r |-> Ret(<<>>), d |-> [d EXCEPT !.joblib = Dump(self)]]

\* os.makedirs when the path does not exist
EnsureDir(d) == IF ~d.exists THEN [d EXCEPT !.exists = TRUE] ELSE d

\* save_predictor_model
SavePredictorModelNoMkdir(model, d) == Save(model, d)

SavePredictorModel(model, d) == Save(model, EnsureDir(d))

\* ------------------------------------------------------------------ state
VARIABLES
    inst,     \* the Classifier objects the caller holds, by slot
    dir,      \* the model directory the caller passes to save / load
    tmp,      \* the scratch directories that exist
    pc,       \* where the running fit call stands; "idle" between calls
    frame,    \* the running fit call: its instance, its scratch directory,
              \* and (history) whether self.model still has the value the
              \* call found in it
    log,      \* history: per instance, the hyperparameters it was
              \* constructed with, was fit invoked, did a fit return
    saved     \* history: the instance as save last wrote it

vars == <<inst, dir, tmp, pc, frame, log, saved>>

NoFrame == [self |-> 0, tempdir |-> 0, via |-> "none", kept |-> TRUE]
NoLog == [args |-> DefaultHyperparameters, invoked |-> FALSE,
          returned |-> FALSE]
NoSave == [inst |-> Absent, log |-> NoLog]

Outcomes ==
    {"ok", "NotFittedError", "AttributeError", "CatBoostError",
     "FileNotFoundError"}

Live == {o \in Objs : inst[o] # Absent}
Free == {o \in Objs : inst[o] = Absent}

\* the slot a new object takes
NewSlot == CHOOSE o \in Free : \A p \in Free : o <= p

\* tempfile.mkdtemp: a directory under a name that does not exist yet.  No
\* code looks at the name, so the first unused one stands for the random
\* name that is drawn.
Mkdtemp(existing) ==
    CHOOSE t \in TempNames \ existing : \A u \in TempNames \ existing : t <= u

Init ==
    /\ inst = [o \in Objs |-> Absent]
    /\ dir \in {NoDir, [exists |-> TRUE, joblib |-> NoFile, other |-> TRUE]}
    /\ tmp = {}
    /\ pc = "idle"
    /\ frame = NoFrame
    /\ log = [o \in Objs |-> NoLog]
    /\ saved = NoSave

\* classifier = Classifier(**hyperparameters)
Construct(h) ==
    /\ pc = "idle"
    /\ Free # {}
    /\ inst' = [inst EXCEPT ![NewSlot] = ClassifierInit(h)]
    /\ log' = [log EXCEPT ![NewSlot] = [NoLog EXCEPT !.args = h]]
    /\ UNCHANGED <<dir, tmp, pc, frame, saved>>

\* fit, line 62: the with block is entered and mkdtemp makes the directory
FitEnter(o) ==
    /\ pc = "idle"
    /\ o \in Live
    /\ TempNames \ tmp # {}
    /\ tmp' = tmp \cup {Mkdtemp(tmp)}
    /\ frame' = [self |-> o, tempdir |-> Mkdtemp(tmp), via |-> "fit",
                  kept |-> TRUE]
    /\ pc' = "with"
    /\ log' = [log EXCEPT ![o].invoked = TRUE]
    /\ UNCHANGED <<inst, dir, saved>>

\* train_predictor_model, lines 154-155: construct, then call fit
TrainEnter(h) ==
    /\ pc = "idle"
    /\ Free # {}
    /\ inst' = [inst EXCEPT ![NewSlot] = ClassifierInit(h)]
    /\ TempNames \ tmp # {}
    /\ tmp' = tmp \cup {Mkdtemp(tmp)}
    /\ frame' = [self |-> NewSlot, tempdir |-> Mkdtemp(tmp), via |-> "train",
                  kept |-> TRUE]
    /\ pc' = "with"
    /\ log' = [log EXCEPT ![NewSlot] =
                 [NoLog EXCEPT !.args = h, !.invoked = TRUE]]
    /\ UNCHANGED <<dir, saved>>

\* fit, lines 63-70: self.model = CatBoostClassifier(...)
FitBuildShared ==
    /\ pc = "with"
    /\ inst' = [o \in Objs |->
                 IF inst[o] = Absent THEN Absent
                 ELSE [inst[o] EXCEPT !.model =
                         NewCatBoost(inst[frame.self], frame.tempdir)]]
    /\ frame' = [frame EXCEPT !.kept =
                   (inst'[frame.self].model = inst[frame.self].model)]
    /\ pc' = "built"
    /\ UNCHANGED <<dir, tmp, log, saved>>

FitBuild ==
    /\ pc = "with"
    /\ inst' = [inst EXCEPT ![frame.self].model =
                  NewCatBoost(inst[frame.self], frame.tempdir)]
    /\ frame' = [frame EXCEPT !.kept =
                   (inst'[frame.self].model = inst[frame.self].model)]
    /\ pc' = "built"
    /\ UNCHANGED <<dir, tmp, log, saved>>

\* fit, lines 63-70: the constructor raises, nothing is assigned
FitBuildRaise ==
    /\ pc = "with"
    /\ pc' = "raising"
    /\ UNCHANGED <<inst, dir, tmp, frame, log, saved>>

\* fit, line 71: self.model.fit(...) trains the model object in place
FitTrain ==
    /\ pc = "built"
    /\ \E w \in Weights :
         inst' = [inst EXCEPT ![frame.self].model.fitted = TRUE,
                              ![frame.self].model.w = w]
    /\ pc' = "trained"
    /\ UNCHANGED <<dir, tmp, frame, log, saved>>

\* fit, line 71: self.model.fit(...) raises
FitTrainRaise ==
    /\ pc = "built"
    /\ pc' = "raising"
    /\ UNCHANGED <<inst, dir, tmp, frame, log, saved>>

\* fit, line 62: the with block is left normally, the directory is removed
FitLeaveWith ==
    /\ pc = "trained"
    /\ tmp' = tmp \ {frame.tempdir}
    /\ pc' = "cleaned"
    /\ UNCHANGED <<inst, dir, frame, log, saved>>

\* fit, line 72: self._is_trained = True, and the call returns
\* (train_predictor_model, line 156: return classifier)
FitReturnUnmarked ==
    /\ pc = "cleaned"
    /\ log' = [log EXCEPT ![frame.self].returned = TRUE]
    /\ pc' = "idle"
    /\ frame' = NoFrame
    /\ UNCHANGED <<inst, dir, tmp, saved>>

FitReturn ==
    /\ pc = "cleaned"
    /\ inst' = [inst EXCEPT ![frame.self].is_trained = TRUE]
    /\ log' = [log EXCEPT ![frame.self].returned = TRUE]
    /\ pc' = "idle"
    /\ frame' = NoFrame
    /\ UNCHANGED <<dir, tmp, saved>>

\* fit, line 62: the with block is left by an exception: the directory is
\* removed and the exception goes on to the caller.  In
\* train_predictor_model the new object is local and is lost with it.
FitUnwindKeepDir ==
    /\ pc = "raising"
    /\ IF frame.via = "train"
       THEN /\ inst' = [inst EXCEPT ![frame.self] = Absent]
            /\ log' = [log EXCEPT ![frame.self] = NoLog]
       ELSE UNCHANGED <<inst, log>>
    /\ pc' = "idle"
    /\ frame' = NoFrame
    /\ UNCHANGED <<tmp, dir, saved>>

FitUnwind ==
    /\ pc = "raising"
    /\ tmp' = tmp \ {frame.tempdir}
    /\ IF frame.via = "train"
       THEN /\ inst' = [inst EXCEPT ![frame.self] = Absent]
            /\ log' = [log EXCEPT ![frame.self] = NoLog]
       ELSE UNCHANGED <<inst, log>>
    /\ pc' = "idle"
    /\ frame' = NoFrame
    /\ UNCHANGED <<dir, saved>>

\* a call that reads the instance and returns or raises: r is its outcome
Query(r) ==
    /\ r.outcome \in Outcomes
    /\ UNCHANGED vars

\* classifier.predict(inputs)
DoPredict(o, x) ==
    /\ pc = "idle" /\ o \in Live
    /\ Query(Predict(inst[o], x))

\* classifier.predict_proba(inputs)
DoPredictProba(o, x) ==
    /\ pc = "idle" /\ o \in Live
    /\ Query(PredictProba(inst[o], x))

\* predict_with_model(classifier, data, return_probs)
DoPredictWithModel(o, x, return_probs) ==
    /\ pc = "idle" /\ o \in Live
    /\ Query(PredictWithModel(inst[o], x, return_probs))

\* classifier.evaluate(test_inputs, test_targets)
DoEvaluate(o, x, y) ==
    /\ pc = "idle" /\ o \in Live
    /\ Query(Evaluate(inst[o], x, y))

\* evaluate_predictor_model(model, x_test, y_test)
DoEvaluatePredictorModel(o, x, y) ==
    /\ pc = "idle" /\ o \in Live
    /\ Query(EvaluatePredictorModel(inst[o], x, y))

\* a call that leaves the directory as s says
Store(o, s) ==
    /\ s.r.outcome \in Outcomes
    /\ dir' = s.d
    /\ saved' = IF s.r.outcome = "ok"
                THEN [inst |-> inst[o], log |-> log[o]]
                ELSE saved
    /\ UNCHANGED <<inst, tmp, pc, frame, log>>

\* classifier.save(model_dir_path)
DoSave(o) ==
    /\ pc = "idle" /\ o \in Live
    /\ Store(o, Save(inst[o], dir))

\* save_predictor_model(model, predictor_dir_path)
DoSavePredictorModel(o) ==
    /\ pc = "idle" /\ o \in Live
    /\ Store(o, SavePredictorModel(inst[o], dir))

\* Classifier.load: joblib.load of predictor.joblib into a new object;
\* FileNotFoundError when there is no such file
DoLoad ==
    /\ pc = "idle"
    /\ Free # {}
    /\ IF dir.joblib = NoFile
       THEN UNCHANGED <<inst, log>>
       ELSE /\ inst' = [inst EXCEPT ![NewSlot] = JoblibLoad(dir.joblib)]
            /\ log' = [log EXCEPT ![NewSlot] = saved.log]
    /\ UNCHANGED <<dir, tmp, pc, frame, saved>>

\* load_predictor_model(predictor_dir_path)
DoLoadPredictorModel == DoLoad

Next ==
    \/ \E h \in HyperparameterSets : Construct(h)
    \/ \E h \in HyperparameterSets : TrainEnter(h)
    \/ \E o \in Objs : FitEnter(o)
    \/ FitBuild
    \/ FitBuildRaise
    \/ FitTrain
    \/ FitTrainRaise
    \/ FitLeaveWith
    \/ FitReturn
    \/ FitUnwind
    \/ \E o \in Objs, x \in Inputs : DoPredict(o, x)
    \/ \E o \in Objs, x \in Inputs : DoPredictProba(o, x)
    \/ \E o \in Objs, x \in Inputs, p \in BOOLEAN : DoPredictWithModel(o, x, p)
    \/ \E o \in Objs, x \in Inputs, y \in Labels : DoEvaluate(o, x, y)
    \/ \E o \in Objs, x \in Inputs, y \in Labels :
         DoEvaluatePredictorModel(o, x, y)
    \/ \E o \in Objs : DoSave(o)
    \/ \E o \in Objs : DoSavePredictorModel(o)
    \/ DoLoad
    \/ DoLoadPredictorModel

Spec == Init /\ [][Next]_vars

\* ----------------------------------------------------------------- claims
\* the instances on which fit has not been invoked
Unfitted == {o \in Live : ~log[o].invoked}

\* the instances the caller can call: all but the one train_predictor_model
\* is still working on
Callable == {o \in Live : ~(frame.via = "train" /\ frame.self = o)}

\* the directory d as it is once it exists
Existing(d) == [d EXCEPT !.exists = TRUE]

\* C1: on an instance on which fit has not been invoked, every evaluate and
\* every save (alone or through the wrappers) raises NotFittedError,
\* whatever the arguments and whatever calls came before, and the save
\* leaves predictor.joblib as it was.
TheoremC1 ==
    \A o \in Unfitted :
        /\ \A x \in Inputs, y \in Labels :
             /\ Evaluate(inst[o], x, y) = Raise("NotFittedError")
             /\ EvaluatePredictorModel(inst[o], x, y) = Raise("NotFittedError")
        /\ Save(inst[o], dir) = [r |-> Raise("NotFittedError"), d |-> dir]
        /\ Save(inst[o], Existing(dir)) =
             [r |-> Raise("NotFittedError"), d |-> Existing(dir)]
        /\ SavePredictorModel(inst[o], dir).r = Raise("NotFittedError")
        /\ SavePredictorModel(inst[o], dir).d.joblib = dir.joblib

\* an instance that was never fitted, next to a trained one that was saved
WitnessC1 ==
    \E o \in Unfitted :
        /\ pc = "idle"
        /\ Evaluate(inst[o], 0, 0).outcome = "NotFittedError"
        /\ Save(inst[o], dir).r.outcome = "NotFittedError"
        /\ dir.exists
        /\ dir.joblib # NoFile
        /\ dir.joblib # Dump(inst[o])

\* C2: on an instance on which fit has not been invoked, predict and
\* predict_proba, called directly or through predict_with_model with either
\* flag, end in an error and return nothing.
TheoremC2 ==
    \A o \in Unfitted : \A x \in Inputs :
        /\ Predict(inst[o], x).outcome # "ok"
        /\ Predict(inst[o], x).val = <<>>
        /\ PredictProba(inst[o], x).outcome # "ok"
        /\ PredictProba(inst[o], x).val = <<>>
        /\ \A p \in BOOLEAN :
             /\ PredictWithModel(inst[o], x, p).outcome # "ok"
             /\ PredictWithModel(inst[o], x, p).val = <<>>

WitnessC2 ==
    \E o \in Unfitted, p \in Live :
        /\ pc = "idle"
        /\ PredictWithModel(inst[o], 0, TRUE).outcome = "AttributeError"
        /\ PredictWithModel(inst[o], 0, FALSE).outcome = "AttributeError"
        /\ PredictWithModel(inst[p], 0, FALSE).outcome = "ok"

\* C3: from its construction until fit is invoked on it, an instance holds
\* the four hyperparameters that were passed (as floats and ints), its
\* trained flag is false and its model handle is absent.
TheoremC3 ==
    \A o \in Unfitted :
        LET c == inst[o]
            h == log[o].args
        IN  /\ c.kind = "Classifier"
            /\ c.learning_rate.t = "float"
            /\ Tenths(c.learning_rate) = Tenths(h.learning_rate)
            /\ c.iterations.t = "int"
            /\ Tenths(c.iterations) = Tenths(h.iterations)
            /\ c.depth.t = "int"
            /\ Tenths(c.depth) = Tenths(h.depth)
            /\ c.l2_leaf_reg.t = "float"
            /\ Tenths(c.l2_leaf_reg) = Tenths(h.l2_leaf_reg)
            /\ c.model = None
            /\ ~c.is_trained

WitnessC3 ==
    \E o \in Unfitted, p \in Unfitted :
        /\ log[o].args = DefaultHyperparameters
        /\ log[p].args.kwargs # {}
        /\ log[p].args.iterations.t = "float"
        /\ inst[p].iterations = PyInt(5)
        /\ inst[p].model = None

\* C5: the scratch directory of a fit call exists from the entry of the with
\* block to its exit and at no other time: between calls no scratch directory
\* exists, whether the call returned or raised, and while a call runs the
\* only scratch directory is the one that call made.
TheoremC5 ==
    /\ pc = "idle" => tmp = {}
    /\ pc \in {"with", "built", "trained", "raising"} => tmp = {frame.tempdir}
    /\ pc = "cleaned" => tmp = {}

\* between calls, after one fit raised and another returned
WitnessC5 ==
    \E o \in Live, p \in Live :
        /\ pc = "idle"
        /\ tmp = {}
        /\ log[o].invoked /\ ~log[o].returned /\ inst[o].model # None
        /\ log[p].returned

\* what holds of an instance once a fit call has returned on it
InvC7 ==
    \A o \in Live : log[o].returned =>
        /\ inst[o].is_trained
        /\ inst[o].model # None
        /\ ModelHP(inst[o].model) = HP(inst[o])
        /\ inst[o].model.loss_function = "MultiClass"
        /\ \A x \in Inputs, y \in Labels :
             Evaluate(inst[o], x, y).outcome # "NotFittedError"
        /\ Save(inst[o], dir).r.outcome # "NotFittedError"
        /\ SavePredictorModel(inst[o], dir).r.outcome = "ok"

\* what the return of fit, and the end of train_predictor_model, leave
StepC7 ==
    /\ (pc = "cleaned" /\ pc' = "idle") =>
         /\ log'[frame.self].returned
         /\ inst'[frame.self].is_trained
         /\ inst'[frame.self].model # None
         /\ inst'[frame.self].model.fitted
         /\ ModelHP(inst'[frame.self].model) = HP(inst'[frame.self])
    /\ (pc = "raising" /\ pc' = "idle" /\ frame.via = "train") =>
         inst'[frame.self] = Absent

\* C7: when a fit call returns the instance is marked trained and holds a
\* trained model built with its hyperparameters; from then on the flag stays
\* true and evaluate and save never raise NotFittedError on it;
\* train_predictor_model hands its caller an instance only by such a return.
TheoremC7 == []InvC7 /\ [][StepC7]_vars

\* two instances whose fit returned, one of them saved
WitnessC7 ==
    \E o \in Live, p \in Live :
        /\ o # p
        /\ pc = "idle"
        /\ log[o].returned /\ inst[o].model.fitted
        /\ log[p].returned /\ inst[p].model.fitted
        /\ inst[o].model.w # inst[p].model.w
        /\ dir.joblib = Dump(inst[o])

\* C8: save_predictor_model makes the directory when it is absent, leaves
\* what else is in it alone, and then does what save does in the directory:
\* for a trained instance predictor.joblib holds the dump of the instance,
\* for an untrained one NotFittedError is raised and predictor.joblib is as
\* it was.
TheoremC8 ==
    \A o \in Callable :
        LET s == SavePredictorModel(inst[o], dir)
        IN  /\ s.d.exists
            /\ s.d.other = dir.other
            /\ s = Save(inst[o], Existing(dir))
            /\ IF inst[o].is_trained
               THEN /\ s.r = Ret(<<>>)
                    /\ s.d.joblib = Dump(inst[o])
                    /\ JoblibLoad(s.d.joblib) = inst[o]
               ELSE /\ s.r = Raise("NotFittedError")
                    /\ s.d.joblib = dir.joblib

\* a directory that save_predictor_model made, with the dump of a trained
\* instance in it, next to an untrained instance
WitnessC8 ==
    \E o \in Live, p \in Live :
        /\ pc = "idle"
        /\ dir.exists
        /\ ~dir.other
        /\ inst[o].is_trained
        /\ dir.joblib = Dump(inst[o])
        /\ ~inst[p].is_trained

\* C10: no call changes the hyperparameters of an instance; predict,
\* predict_proba, evaluate, save and the wrappers (and the construction or
\* load of another object) leave every instance as it was; a fit call
\* changes nothing but the model handle and the trained flag of its own
\* instance.
TheoremC10 ==
    [][\A o \in Objs : (inst[o] # Absent /\ inst'[o] # Absent) =>
         /\ HP(inst'[o]) = HP(inst[o])
         /\ inst'[o].kind = inst[o].kind
         /\ (pc = "idle" /\ pc' = "idle") => inst'[o] = inst[o]
         /\ (o # frame.self /\ o # frame'.self) => inst'[o] = inst[o]]_vars

\* a fit returned on one instance while an instance with other
\* hyperparameters stayed untouched, after a save
WitnessC10 ==
    \E o \in Live, p \in Live :
        /\ o # p
        /\ pc = "idle"
        /\ HP(inst[o]) # HP(inst[p])
        /\ log[o].returned
        /\ inst[p].model = None
        /\ dir.joblib # NoFile

\* C6: when fit raises, the model handle and the trained flag of the
\* instance are what they were when the call started.
ClaimC6 ==
    pc = "raising" => frame.kept

\* C9: between calls the model handle is present exactly when the trained
\* flag is true, and a present handle is a model whose training completed.
ClaimC9 ==
    pc = "idle" => \A o \in Live :
        /\ (inst[o].model # None) <=> inst[o].is_trained
        /\ inst[o].model # None => inst[o].model.fitted

\* C4: the instance load makes from what save wrote has the attributes of
\* the saved instance, gives the same predictions on every input, and is
\* usable: predict, evaluate and save on it succeed.
ClaimC4 ==
    [][\A o \in Objs : (DoLoad /\ inst[o] = Absent /\ inst'[o] # Absent) =>
         LET l == inst'[o]
             s == saved.inst
         IN  /\ l = s
             /\ \A x \in Inputs :
                  /\ Predict(l, x) = Predict(s, x)
                  /\ PredictProba(l, x) = PredictProba(s, x)
                  /\ Predict(l, x).outcome = "ok"
                  /\ PredictProba(l, x).outcome = "ok"
                  /\ \A y \in Labels : Evaluate(l, x, y).outcome = "ok"
             /\ Save(l, dir).r.outcome = "ok"]_vars

====
